---- MODULE Spec2Model ----
(***************************************************************************)
(* A model of the USAA transaction summarizer (src/main.py).               *)
(*                                                                         *)
(* Text is modelled as sequences of one-character strings, so that         *)
(* strip(), the substring test `in`, split('***')[0] and slicing are       *)
(* computed character by character.  Money is modelled in exact fixed      *)
(* point: an Amount is an integer number of mills (1/1000 of a dollar), a  *)
(* rounded merchant total is an integer number of cents, a percentage      *)
(* rendered to one decimal is an integer number of tenths of a percent.    *)
(* The binary representation error of float64 is not modelled.             *)
(***************************************************************************)
EXTENDS Integers, Sequences, FiniteSets, TLC

VARIABLES
    desc,            \* clean_merchant_name: the argument
    merchant,        \* clean_merchant_name: the value returned
    cpc,             \* clean_merchant_name: "idle" | "call" | "returned"
    args,            \* main: the command line and what it names on disk
    file_rows,       \* the rows of the input CSV file
    pc,              \* main: the step to run next
    calls,           \* main: the functions called so far, in order
    df,              \* main: df
    df_posted,       \* main: df_posted
    monthly_stats,   \* main: monthly_stats
    spending_report, \* main: spending_report
    stdout,          \* what has been printed
    files,           \* the export files on disk
    exit_code,       \* the exit status of the process, once it has exited
    error            \* the exception that ended the run, if any

cvars == <<desc, merchant, cpc>>
pvars == <<args, file_rows, pc, calls, df, df_posted, monthly_stats,
           spending_report, stdout, files, exit_code, error>>
vars == <<cvars, pvars>>

----------------------------------------------------------------------------
(* Bounds of the input families.                                           *)

\* Descriptions given to clean_merchant_name are concatenations of at most
\* MaxFrags fragments of Fragments.
MaxFrags == 2

----------------------------------------------------------------------------
(* Text helpers (Python str operations used by clean_merchant_name).       *)

SetMin(S) == CHOOSE x \in S : \A y \in S : x <= y
SetMax(S) == CHOOSE x \in S : \A y \in S : x >= y

\* The characters str.strip() removes that occur in the modelled inputs.
Whitespace == {" ", "\t"}

\* s.strip()
Strip(s) ==
    LET keep == {i \in 1..Len(s) : s[i] \notin Whitespace}
    IN  IF keep = {} THEN <<>> ELSE SubSeq(s, SetMin(keep), SetMax(keep))

\* The positions at which p occurs in s.
Occurrences(s, p) ==
    {i \in 1..(Len(s) - Len(p) + 1) : SubSeq(s, i, i + Len(p) - 1) = p}

\* p in s
Contains(s, p) == Occurrences(s, p) # {}

\* s.split(sep)[0]: the text before the first occurrence of sep, or all of s.
SplitFirst(s, sep) ==
    IF Contains(s, sep) THEN SubSeq(s, 1, SetMin(Occurrences(s, sep)) - 1) ELSE s

\* s[:n]
Prefix(s, n) == IF Len(s) > n THEN SubSeq(s, 1, n) ELSE s

----------------------------------------------------------------------------
(* clean_merchant_name: the patterns, the labels and the function.         *)

PAT_UBER_EATS == <<"U","B","E","R"," ","E","A","T","S">>
PAT_PAYPAL == <<"P","A","Y","P","A","L">>
PAT_INST_XFER == <<"I","N","S","T"," ","X","F","E","R">>
PAT_CAREERBUILDER == <<"C","A","R","E","E","R","B","U","I","L","D","E","R">>
PAT_INTEREST_PAID == <<"I","N","T","E","R","E","S","T"," ","P","A","I","D">>
PAT_GEORGIA == <<"G","e","o","r","g","i","a"," ","D","e","p","a","r","t","m","e">>
\* two spaces between IRS and TREAS
PAT_IRS_TREAS == <<"I","R","S"," "," ","T","R","E","A","S">>
PAT_TAX_REF == <<"T","A","X"," ","R","E","F">>
SEP_STARS == <<"*","*","*">>

LBL_UBER_EATS == <<"U","b","e","r"," ","E","a","t","s">>
LBL_PAYPAL_TRANSFER == <<"P","a","y","P","a","l"," ","T","r","a","n","s","f","e","r">>
LBL_PAYPAL == <<"P","a","y","P","a","l">>
LBL_CAREERBUILDER == <<"C","a","r","e","e","r","B","u","i","l","d","e","r"," ","P","a","y","c","h","e","c","k">>
LBL_INTEREST == <<"I","n","t","e","r","e","s","t"," ","I","n","c","o","m","e">>
LBL_GEORGIA == <<"G","e","o","r","g","i","a"," ","S","t","a","t","e"," ","T","a","x"," ","R","e","f","u","n","d">>
LBL_FEDERAL == <<"F","e","d","e","r","a","l"," ","T","a","x"," ","R","e","f","u","n","d">>

\* The longest default merchant name kept.
MaxMerchantLen == 50

\* A default branch that forgets to cut the description at '***'.
default_merchant_no_split(d) ==
    LET cleaned == Strip(d)
    IN  IF Len(cleaned) > MaxMerchantLen
        THEN Strip(Prefix(cleaned, MaxMerchantLen))
        ELSE cleaned

\* The else branch: the text before the first '***', trimmed, cut to 50
\* characters and trimmed again.  d is the trimmed description.
default_merchant(d) ==
    LET cleaned == Strip(SplitFirst(d, SEP_STARS))
    IN  IF Len(cleaned) > MaxMerchantLen
        THEN Strip(Prefix(cleaned, MaxMerchantLen))
        ELSE cleaned

\* A rule chain that tests PAYPAL before UBER EATS.
clean_merchant_name_paypal_first(description) ==
    LET d == Strip(description)
    IN  IF Contains(d, PAT_PAYPAL)
        THEN IF Contains(d, PAT_INST_XFER) THEN LBL_PAYPAL_TRANSFER
             ELSE LBL_PAYPAL
        ELSE IF Contains(d, PAT_UBER_EATS) THEN LBL_UBER_EATS
        ELSE IF Contains(d, PAT_CAREERBUILDER) THEN LBL_CAREERBUILDER
        ELSE IF Contains(d, PAT_INTEREST_PAID) THEN LBL_INTEREST
        ELSE IF Contains(d, PAT_GEORGIA) THEN LBL_GEORGIA
        ELSE IF Contains(d, PAT_IRS_TREAS) /\ Contains(d, PAT_TAX_REF)
             THEN LBL_FEDERAL
        ELSE default_merchant(d)

clean_merchant_name(description) ==
    LET d == Strip(description)
    IN  IF Contains(d, PAT_UBER_EATS) THEN LBL_UBER_EATS
        ELSE IF Contains(d, PAT_PAYPAL)
             THEN IF Contains(d, PAT_INST_XFER) THEN LBL_PAYPAL_TRANSFER
                  ELSE LBL_PAYPAL
        ELSE IF Contains(d, PAT_CAREERBUILDER) THEN LBL_CAREERBUILDER
        ELSE IF Contains(d, PAT_INTEREST_PAID) THEN LBL_INTEREST
        ELSE IF Contains(d, PAT_GEORGIA) THEN LBL_GEORGIA
        ELSE IF Contains(d, PAT_IRS_TREAS) /\ Contains(d, PAT_TAX_REF)
             THEN LBL_FEDERAL
        ELSE default_merchant(d)

----------------------------------------------------------------------------
(* The descriptions clean_merchant_name is applied to.                     *)

FRAG_IRS_ONE_SPACE == <<"I","R","S"," ","T","R","E","A","S">>
FRAG_LOWER_UBER == <<"u","b","e","r"," ","e","a","t","s">>
FRAG_NETFLIX == <<"N","E","T","F","L","I","X",".","C","O","M">>
DESC_UBER == <<"U","B","E","R"," ","E","A","T","S"," ","*","*","*","1","2","3","4">>
DESC_NETFLIX == FRAG_NETFLIX
\* 30 characters: two of them overflow the 50 character cut
FRAG_LONG30 == <<"W","H","O","L","E","S","A","L","E"," ","C","L","U","B"," ","S","T","O","R","E"," ","N","U","M","B","E","R"," ","4","2">>
\* 51 characters with a space at position 50: the cut leaves a trailing space
FRAG_LONG51 == <<"A","A","A","A","A","A","A","A","A","A","A","A","A","A","A","A","A","A","A","A","A","A","A","A","A","A","A","A","A","A","A","A","A","A","A","A","A","A","A","A","A","A","A","A","A","A","A","A","A"," ","Z">>

Fragments ==
    { PAT_UBER_EATS, PAT_PAYPAL, PAT_INST_XFER, PAT_CAREERBUILDER,
      PAT_INTEREST_PAID, PAT_GEORGIA, PAT_IRS_TREAS, PAT_TAX_REF,
      FRAG_IRS_ONE_SPACE, FRAG_LOWER_UBER, FRAG_NETFLIX, FRAG_LONG30,
      FRAG_LONG51, SEP_STARS, <<" ">> }

RECURSIVE Concats(_)
Concats(n) ==
    IF n = 0 THEN {<<>>}
    ELSE LET shorter == Concats(n - 1)
         IN  shorter \cup {s \o f : s \in shorter, f \in Fragments}

Descriptions == Concats(MaxFrags)

----------------------------------------------------------------------------
(* Numbers.                                                                *)

Abs(n) == IF n < 0 THEN -n ELSE n

\* n / d rounded to the nearest integer, a half to the even neighbour
\* (numpy's round and Python's round and format); d > 0.
RoundHalfEvenNat(n, d) ==
    LET q == n \div d
        r == n % d
    IN  IF 2 * r < d THEN q
        ELSE IF 2 * r > d THEN q + 1
        ELSE IF q % 2 = 0 THEN q ELSE q + 1

RoundHalfEven(n, d) ==
    IF n < 0 THEN -RoundHalfEvenNat(-n, d) ELSE RoundHalfEvenNat(n, d)

\* n / d cut towards zero: the percentage of a report that truncates
\* where the program rounds.
Truncate(n, d) == IF n < 0 THEN -((-n) \div d) ELSE n \div d

----------------------------------------------------------------------------
(* Dates and month names.  A Date is [y, m]: no step reads the day.        *)

MonthNames ==
    << "January", "February", "March", "April", "May", "June", "July",
       "August", "September", "October", "November", "December" >>

\* Date.dt.strftime('%B %Y')
MonthName(date) == MonthNames[date.m] \o " " \o ToString(date.y)

\* The months a month name of the modelled inputs can stand for.
Calendar == [y : {2023, 2024}, m : 1..12]

\* pd.to_datetime(month, format='%B %Y')
to_datetime(name) == CHOOSE date \in Calendar : MonthName(date) = name

\* month_date.strftime('%Y-%m')
YearMonth(date) ==
    ToString(date.y) \o "-" \o (IF date.m < 10 THEN "0" ELSE "") \o ToString(date.m)

\* The order of two dates of the calendar.
Chrono(date) == 12 * date.y + date.m

\* sorted(keys, key=lambda x: pd.to_datetime(x, format='%B %Y'))
RECURSIVE sorted_months(_)
sorted_months(names) ==
    IF names = {} THEN <<>>
    ELSE LET first == CHOOSE n \in names :
                        \A o \in names :
                            Chrono(to_datetime(n)) <= Chrono(to_datetime(o))
         IN  <<first>> \o sorted_months(names \ {first})

----------------------------------------------------------------------------
(* Frames: a DataFrame is the sequence of its rows, a row a record of its  *)
(* columns.  Amount is in mills.                                           *)

RECURSIVE SumAmount(_)
SumAmount(frame) ==
    IF frame = <<>> THEN 0 ELSE Head(frame).Amount + SumAmount(Tail(frame))

RECURSIVE SumTotal(_)
SumTotal(rows) ==
    IF rows = <<>> THEN 0 ELSE Head(rows).total + SumTotal(Tail(rows))

RECURSIVE Flatten(_)
Flatten(seqs) ==
    IF seqs = <<>> THEN <<>> ELSE Head(seqs) \o Flatten(Tail(seqs))

\* The values of column MonthName: the groups of groupby('MonthName').
Months(frame) == {frame[i].MonthName : i \in 1..Len(frame)}

\* One group of groupby('MonthName').
month_df(frame, month) == SelectSeq(frame, LAMBDA r : r.MonthName = month)

----------------------------------------------------------------------------
(* clean_data.                                                             *)

\* The columns clean_data adds to a row.
add_columns(r) ==
    [ Date |-> r.Date, Description |-> r.Description, Amount |-> r.Amount,
      Status |-> r.Status,
      MonthName |-> MonthName(r.Date),
      CleanMerchant |-> clean_merchant_name(r.Description),
      TransactionType |-> IF r.Amount > 0 THEN "Deposit" ELSE "Withdrawal" ]

\* A filter that keeps every row, whatever its Status.
posted_rows_unfiltered(frame) == frame

\* df[df['Status'] == 'Posted']
posted_rows(frame) == SelectSeq(frame, LAMBDA r : r.Status = "Posted")

\* clean_data's df, with its new columns, and the df_posted it returns.
clean_data(frame) ==
    LET cleaned == [i \in 1..Len(frame) |-> add_columns(frame[i])]
    IN  [df |-> cleaned, df_posted |-> posted_rows(cleaned)]

----------------------------------------------------------------------------
(* calculate_monthly_totals.  deposits, spending and net are in mills.     *)

calculate_monthly_totals(posted) ==
    [ month \in Months(posted) |->
        LET mdf == month_df(posted, month)
            deposits == SumAmount(SelectSeq(mdf, LAMBDA r : r.Amount > 0))
            spending == Abs(SumAmount(SelectSeq(mdf, LAMBDA r : r.Amount < 0)))
        IN  [ deposits |-> deposits,
              spending |-> spending,
              net |-> deposits - spending,
              transaction_count |-> Len(mdf) ] ]

----------------------------------------------------------------------------
(* create_spending_report.  A merchant's total is in cents.                *)

\* A selection that keeps the deposits among the spending rows.
spending_df_all_rows(mdf) == mdf

\* month_df[month_df['Amount'] < 0]
spending_df(mdf) == SelectSeq(mdf, LAMBDA r : r.Amount < 0)

\* groupby('CleanMerchant').agg({'Amount': ['sum', 'count']}).round(2), then
\* abs of the total: one row per merchant.
merchant_spending(sdf) ==
    { LET rows == SelectSeq(sdf, LAMBDA r : r.CleanMerchant = name)
      IN  [ merchant |-> name,
            total |-> Abs(RoundHalfEven(SumAmount(rows), 10)),
            count |-> Len(rows) ]
      : name \in {sdf[i].CleanMerchant : i \in 1..Len(sdf)} }

\* A sort that leaves the smallest total first.
RECURSIVE sort_values_ascending(_)
sort_values_ascending(rows) ==
    IF rows = {} THEN {<<>>}
    ELSE LET low == {r \in rows : \A o \in rows : r.total <= o.total}
         IN  UNION { {<<r>> \o rest : rest \in sort_values_ascending(rows \ {r})}
                     : r \in low }

\* sort_values('total', ascending=False): every order the sort may give.  The
\* default sort is not stable, so rows of equal total may come in any order.
RECURSIVE sort_values(_)
sort_values(rows) ==
    IF rows = {} THEN {<<>>}
    ELSE LET top == {r \in rows : \A o \in rows : r.total >= o.total}
         IN  UNION { {<<r>> \o rest : rest \in sort_values(rows \ {r})}
                     : r \in top }

\* The months create_spending_report keeps: those with a spending row.
spending_months(posted) ==
    {month \in Months(posted) : spending_df(month_df(posted, month)) # <<>>}

\* Every report create_spending_report may return for df_posted.
create_spending_report(posted) ==
    LET months == spending_months(posted)
        orders(month) ==
            sort_values(merchant_spending(spending_df(month_df(posted, month))))
    IN  { report \in [months -> UNION {orders(month) : month \in months}] :
            \A month \in months : report[month] \in orders(month) }

----------------------------------------------------------------------------
(* Percentages.  A percentage rendered to one decimal is a number of       *)
(* tenths of a percent, or nan when the month's total is 0.0 (numpy        *)
(* divides 0.0 by 0.0 to nan without raising).                             *)

\* The number of merchants print_spending_details shows by name.
TopN == 10

\* A percentage cut to one decimal, not rounded.
percentage_truncated(total, month_total) ==
    IF month_total = 0 THEN [nan |-> TRUE, tenths |-> 0]
    ELSE [nan |-> FALSE, tenths |-> Truncate(1000 * total, month_total)]

\* (total / month_total) * 100 to one decimal place.
percentage(total, month_total) ==
    IF month_total = 0 THEN [nan |-> TRUE, tenths |-> 0]
    ELSE [nan |-> FALSE, tenths |-> RoundHalfEven(1000 * total, month_total)]

----------------------------------------------------------------------------
(* What the print functions write.                                         *)

\* explore_data: the counts it prints, of the unfiltered frame.
exploration_stats(frame) ==
    [ rows |-> Len(frame),
      posted |-> Len(SelectSeq(frame, LAMBDA r : r.Status = "Posted")),
      deposits |-> Len(SelectSeq(frame, LAMBDA r : r.Amount > 0)),
      withdrawals |-> Len(SelectSeq(frame, LAMBDA r : r.Amount < 0)),
      zero |-> Len(SelectSeq(frame, LAMBDA r : r.Amount = 0)) ]

\* print_monthly_summary: the month rows, in chronological order.
summary_rows(stats) ==
    LET months == sorted_months(DOMAIN stats)
    IN  [ k \in 1..Len(months) |->
            [ month |-> months[k],
              deposits |-> stats[months[k]].deposits,
              spending |-> stats[months[k]].spending,
              net |-> stats[months[k]].net,
              transaction_count |-> stats[months[k]].transaction_count ] ]

RECURSIVE SumField(_, _)
SumField(rows, field) ==
    IF rows = <<>> THEN 0 ELSE Head(rows)[field] + SumField(Tail(rows), field)

\* print_monthly_summary: the TOTAL row.
total_row(stats, posted) ==
    LET rows == summary_rows(stats)
        total_deposits == SumField(rows, "deposits")
        total_spending == SumField(rows, "spending")
    IN  [ deposits |-> total_deposits, spending |-> total_spending,
          net |-> total_deposits - total_spending,
          transaction_count |-> Len(posted) ]

\* print_monthly_summary: the AVERAGE/MONTH row, money to the cent and the
\* count to one decimal; num_months > 0.
average_row(stats, posted) ==
    LET total == total_row(stats, posted)
        num_months == Cardinality(DOMAIN stats)
    IN  [ deposits |-> RoundHalfEven(total.deposits, 10 * num_months),
          spending |-> RoundHalfEven(total.spending, 10 * num_months),
          net |-> RoundHalfEven(total.net, 10 * num_months),
          transactions_tenths |-> RoundHalfEven(10 * Len(posted), num_months) ]

\* print_spending_details: per month, in chronological order, the rows of
\* the first merchants and the '... and N others' row, if any.
spending_details(report) ==
    LET months == sorted_months(DOMAIN report)
    IN  [ k \in 1..Len(months) |->
            LET merchant_data == report[months[k]]
                month_total == SumTotal(merchant_data)
                num_to_show == IF Len(merchant_data) < TopN
                               THEN Len(merchant_data) ELSE TopN
            IN  [ month |-> months[k],
                  month_total |-> month_total,
                  rows |-> [ i \in 1..num_to_show |->
                      [ merchant |-> merchant_data[i].merchant,
                        total |-> merchant_data[i].total,
                        count |-> merchant_data[i].count,
                        percentage |-> percentage(merchant_data[i].total, month_total) ] ],
                  others |->
                      IF Len(merchant_data) > TopN
                      THEN LET remaining_total ==
                                 SumTotal(SubSeq(merchant_data, TopN + 1, Len(merchant_data)))
                           IN  << [ remaining |-> Len(merchant_data) - TopN,
                                    remaining_total |-> remaining_total,
                                    remaining_percentage |->
                                        percentage(remaining_total, month_total) ] >>
                      ELSE <<>> ] ]

----------------------------------------------------------------------------
(* export_to_csv: the rows of the two files.                               *)

\* summary_df after sort_values('Month').
summary_df(stats) ==
    LET months == sorted_months(DOMAIN stats)
    IN  [ k \in 1..Len(months) |->
            [ Month |-> YearMonth(to_datetime(months[k])),
              Deposits |-> stats[months[k]].deposits,
              Spending |-> stats[months[k]].spending,
              Net |-> stats[months[k]].net,
              Transaction_Count |-> stats[months[k]].transaction_count ] ]

\* details_df after sort_values(['Month', 'Amount'], ascending=[True, False]):
\* the months in order, each month's merchants in the report's order, which
\* is by Amount descending already.
details_df(report) ==
    LET months == sorted_months(DOMAIN report)
    IN  Flatten([ k \in 1..Len(months) |->
            LET merchants == report[months[k]]
                month_total == SumTotal(merchants)
            IN  [ i \in 1..Len(merchants) |->
                    [ Month |-> YearMonth(to_datetime(months[k])),
                      Merchant |-> merchants[i].merchant,
                      Amount |-> merchants[i].total,
                      Transaction_Count |-> merchants[i].count,
                      Percentage_of_Month |->
                          percentage(merchants[i].total, month_total) ] ] ])

\* f"{csv_prefix}monthly_summary.csv" and f"{csv_prefix}spending_details.csv"
monthly_summary_path(csv_prefix) == csv_prefix \o "monthly_summary.csv"
spending_details_path(csv_prefix) == csv_prefix \o "spending_details.csv"

----------------------------------------------------------------------------
(* main: the order of its steps and the steps.                             *)

\* An order that prints the spending details before the report they show
\* has been created.
MainOrderPrintFirst ==
    << "read_csv", "explore_data", "clean_data", "calculate_monthly_totals",
       "print_monthly_summary", "print_spending_details",
       "create_spending_report", "export_to_csv", "complete" >>

\* The calls main makes after it has checked its arguments, in order.
MainOrder ==
    << "read_csv", "explore_data", "clean_data", "calculate_monthly_totals",
       "print_monthly_summary", "create_spending_report",
       "print_spending_details", "export_to_csv", "complete" >>

\* The step main runs after `step`.
After(step) ==
    MainOrder[(CHOOSE i \in 1..Len(MainOrder) : MainOrder[i] = step) + 1]

\* One piece of output: which part of the report it is, and its content.
Out(tag, body) == [tag |-> tag, body |-> body]

\* if args.csv_prefix: neither None nor the empty string
Truthy(csv_prefix) == csv_prefix.given /\ csv_prefix.value # ""

\* sys.exit(1)
Exit1 ==
    /\ pc' = "exited"
    /\ exit_code' = <<1>>
    /\ UNCHANGED error

\* An exception nothing catches: the interpreter prints the traceback and
\* exits with status 1.
Raise(exception) ==
    /\ pc' = "exited"
    /\ exit_code' = <<1>>
    /\ error' = exception

\* The step returns and main goes on.
Return(step) ==
    /\ pc' = After(step)
    /\ UNCHANGED <<exit_code, error>>

\* main, from parse_args to the first call: the existence check.
check_arguments ==
    /\ pc = "start"
    /\ IF ~args.exists
       THEN /\ stdout' = Append(stdout, Out("Error: File does not exist", <<>>))
            /\ Exit1
       ELSE /\ stdout' = Append(stdout, Out("Processing transactions from", <<>>))
            /\ pc' = MainOrder[1]
            /\ UNCHANGED <<exit_code, error>>
    /\ UNCHANGED <<args, file_rows, calls, df, df_posted, monthly_stats,
                   spending_report, files, cvars>>

\* A read_csv whose except branch prints the error and does not exit.
read_csv_no_exit ==
    /\ pc = "read_csv"
    /\ calls' = Append(calls, "read_csv")
    /\ df' = IF args.parses THEN file_rows ELSE df
    /\ stdout' = stdout \o
           << Out("Reading CSV file...", <<>>),
              IF args.parses THEN Out("Successfully loaded", Len(file_rows))
              ELSE Out("Error reading CSV file", <<>>) >>
    /\ Return("read_csv")
    /\ UNCHANGED <<args, file_rows, df_posted, monthly_stats, spending_report,
                   files, cvars>>

\* read_csv, called by main.  sys.exit(1) raises SystemExit, which the
\* except clause it is raised in does not catch.
read_csv ==
    /\ pc = "read_csv"
    /\ calls' = Append(calls, "read_csv")
    /\ IF args.parses
       THEN /\ df' = file_rows
            /\ stdout' = stdout \o << Out("Reading CSV file...", <<>>),
                                      Out("Successfully loaded", Len(file_rows)) >>
            /\ Return("read_csv")
       ELSE /\ df' = df
            /\ stdout' = stdout \o << Out("Reading CSV file...", <<>>),
                                      Out("Error reading CSV file", <<>>) >>
            /\ Exit1
    /\ UNCHANGED <<args, file_rows, df_posted, monthly_stats, spending_report,
                   files, cvars>>

\* A frame without rows has no first date: min() is NaT, and NaT.strftime
\* raises ValueError, after the head of the statistics has been printed.
explore_data ==
    /\ pc = "explore_data"
    /\ calls' = Append(calls, "explore_data")
    /\ IF Len(df) = 0
       THEN /\ stdout' = Append(stdout, Out("DATA EXPLORATION, to the date range", <<>>))
            /\ Raise("ValueError")
       ELSE /\ stdout' = Append(stdout, Out("DATA EXPLORATION", exploration_stats(df)))
            /\ Return("explore_data")
    /\ UNCHANGED <<args, file_rows, df, df_posted, monthly_stats,
                   spending_report, files, cvars>>

clean_data_step ==
    /\ pc = "clean_data"
    /\ calls' = Append(calls, "clean_data")
    /\ LET result == clean_data(df)
       IN  /\ df' = result.df
           /\ df_posted' = result.df_posted
           /\ stdout' = Append(stdout,
                  Out("DATA CLEANING & CATEGORIZATION",
                      [ posted |-> Len(result.df_posted),
                        pending |-> Len(result.df) - Len(result.df_posted) ]))
    /\ Return("clean_data")
    /\ UNCHANGED <<args, file_rows, monthly_stats, spending_report, files, cvars>>

calculate_monthly_totals_step ==
    /\ pc = "calculate_monthly_totals"
    /\ calls' = Append(calls, "calculate_monthly_totals")
    /\ monthly_stats' = calculate_monthly_totals(df_posted)
    /\ Return("calculate_monthly_totals")
    /\ UNCHANGED <<args, file_rows, df, df_posted, spending_report, stdout,
                   files, cvars>>

\* The table and its TOTAL row are printed before the averages are
\* computed; with no month, total_deposits / num_months is 0 / 0.
print_monthly_summary ==
    /\ pc = "print_monthly_summary"
    /\ calls' = Append(calls, "print_monthly_summary")
    /\ LET table == Out("MONTHLY TOTALS",
                        [ rows |-> summary_rows(monthly_stats),
                          total |-> total_row(monthly_stats, df_posted) ])
       IN  IF Cardinality(DOMAIN monthly_stats) = 0
           THEN /\ stdout' = Append(stdout, table)
                /\ Raise("ZeroDivisionError")
           ELSE /\ stdout' = stdout \o
                       << table,
                          Out("AVERAGE/MONTH", average_row(monthly_stats, df_posted)) >>
                /\ Return("print_monthly_summary")
    /\ UNCHANGED <<args, file_rows, df, df_posted, monthly_stats,
                   spending_report, files, cvars>>

create_spending_report_step ==
    /\ pc = "create_spending_report"
    /\ calls' = Append(calls, "create_spending_report")
    /\ spending_report' \in create_spending_report(df_posted)
    /\ Return("create_spending_report")
    /\ UNCHANGED <<args, file_rows, df, df_posted, monthly_stats, stdout,
                   files, cvars>>

print_spending_details ==
    /\ pc = "print_spending_details"
    /\ calls' = Append(calls, "print_spending_details")
    /\ stdout' = Append(stdout,
           Out("DETAILED SPENDING BY MERCHANT", spending_details(spending_report)))
    /\ Return("print_spending_details")
    /\ UNCHANGED <<args, file_rows, df, df_posted, monthly_stats,
                   spending_report, files, cvars>>

\* to_csv opens the path for writing, which creates or empties the file, and
\* the rows reach it by the time it is closed.
OpenForWriting(path) == (path :> [state |-> "partial", rows |-> <<>>]) @@ files
WrittenAndClosed(path, rows) == (path :> [state |-> "complete", rows |-> rows]) @@ files

\* main's `if args.csv_prefix:` and export_to_csv up to the point where
\* summary_df.to_csv has opened its file.  A frame built from no rows has no
\* column Month, and sort_values('Month') raises KeyError.
export_to_csv ==
    /\ pc = "export_to_csv"
    /\ IF ~Truthy(args.csv_prefix)
       THEN /\ Return("export_to_csv")
            /\ UNCHANGED <<calls, files>>
       ELSE /\ calls' = Append(calls, "export_to_csv")
            /\ IF summary_df(monthly_stats) = <<>>
               THEN /\ Raise("KeyError")
                    /\ UNCHANGED files
               ELSE /\ files' = OpenForWriting(monthly_summary_path(args.csv_prefix.value))
                    /\ pc' = "to_csv_summary"
                    /\ UNCHANGED <<exit_code, error>>
    /\ UNCHANGED <<args, file_rows, df, df_posted, monthly_stats,
                   spending_report, stdout, cvars>>

\* summary_df.to_csv returns, and the path is printed.
to_csv_summary ==
    /\ pc = "to_csv_summary"
    /\ files' = WrittenAndClosed(monthly_summary_path(args.csv_prefix.value),
                                 summary_df(monthly_stats))
    /\ stdout' = Append(stdout, Out("Exported monthly summary to", <<>>))
    /\ pc' = "export_details"
    /\ UNCHANGED <<args, file_rows, calls, df, df_posted, monthly_stats,
                   spending_report, exit_code, error, cvars>>

\* export_to_csv from details_data to the point where details_df.to_csv has
\* opened its file.  A report with no month gives a frame without columns,
\* and sort_values(['Month', 'Amount']) raises KeyError.
export_details ==
    /\ pc = "export_details"
    /\ IF details_df(spending_report) = <<>>
       THEN /\ Raise("KeyError")
            /\ UNCHANGED files
       ELSE /\ files' = OpenForWriting(spending_details_path(args.csv_prefix.value))
            /\ pc' = "to_csv_details"
            /\ UNCHANGED <<exit_code, error>>
    /\ UNCHANGED <<args, file_rows, calls, df, df_posted, monthly_stats,
                   spending_report, stdout, cvars>>

\* details_df.to_csv returns, the path is printed, export_to_csv returns.
to_csv_details ==
    /\ pc = "to_csv_details"
    /\ files' = WrittenAndClosed(spending_details_path(args.csv_prefix.value),
                                 details_df(spending_report))
    /\ stdout' = Append(stdout, Out("Exported spending details to", <<>>))
    /\ Return("export_to_csv")
    /\ UNCHANGED <<args, file_rows, calls, df, df_posted, monthly_stats,
                   spending_report, cvars>>

\* main's last line; the process ends with status 0.
complete ==
    /\ pc = "complete"
    /\ stdout' = Append(stdout, Out("Analysis complete!", <<>>))
    /\ pc' = "exited"
    /\ exit_code' = <<0>>
    /\ UNCHANGED <<args, file_rows, calls, df, df_posted, monthly_stats,
                   spending_report, files, error, cvars>>

\* The operator ends the process: it has no handler for any signal, so it
\* stops where it is and what is on disk stays as it is.
terminate ==
    /\ pc \notin {"idle", "exited", "killed"}
    /\ pc' = "killed"
    /\ UNCHANGED <<args, file_rows, calls, df, df_posted, monthly_stats,
                   spending_report, stdout, files, exit_code, error, cvars>>

Next ==
    \/ check_arguments
    \/ read_csv
    \/ explore_data
    \/ clean_data_step
    \/ calculate_monthly_totals_step
    \/ print_monthly_summary
    \/ create_spending_report_step
    \/ print_spending_details
    \/ export_to_csv
    \/ to_csv_summary
    \/ export_details
    \/ to_csv_details
    \/ complete
    \/ terminate

----------------------------------------------------------------------------
(* The input files and command lines of the runs checked.                  *)

\* A run reads a file of at most MaxRows rows.
MaxRows == 2

MonthSeq == << [y |-> 2024, m |-> 3], [y |-> 2024, m |-> 4] >>
DescriptionSeq == << DESC_UBER, DESC_NETFLIX >>
\* in mills: a spending of whole cents, one of a cent and a half, a deposit
AmountSeq == << -20, -15, 10 >>
StatusSeq == << "Posted", "Pending" >>

NumRowKinds == Len(MonthSeq) * Len(DescriptionSeq) * Len(AmountSeq) * Len(StatusSeq)

\* The k-th row kind, k in 0..NumRowKinds-1.
RowKind(k) ==
    LET a == k % Len(AmountSeq)
        k1 == k \div Len(AmountSeq)
        s == k1 % Len(StatusSeq)
        k2 == k1 \div Len(StatusSeq)
        d == k2 % Len(DescriptionSeq)
        m == k2 \div Len(DescriptionSeq)
    IN  [ Date |-> MonthSeq[m + 1], Description |-> DescriptionSeq[d + 1],
          Amount |-> AmountSeq[a + 1], Status |-> StatusSeq[s + 1] ]

\* The files of n rows.  No step depends on the order of the rows of the
\* file (sums, counts and groups), so one order of each choice of rows is
\* enough.
FilesOfLength(n) ==
    { [i \in 1..n |-> RowKind(kinds[i])] :
        kinds \in { f \in [1..n -> 0..(NumRowKinds - 1)] :
                      \A i \in 1..(n - 1) : f[i] <= f[i + 1] } }

InputFiles == UNION {FilesOfLength(n) : n \in 0..MaxRows}

\* --csv-prefix: absent (None) or given
CsvPrefixes ==
    { [given |-> FALSE, value |-> ""],
      [given |-> TRUE, value |-> "out_"] }

NotStarted ==
    /\ pc = "start"
    /\ calls = <<>>
    /\ df = <<>>
    /\ df_posted = <<>>
    /\ monthly_stats = <<>>
    /\ spending_report = <<>>
    /\ stdout = <<>>
    /\ files = <<>>
    /\ exit_code = <<>>
    /\ error = "None"
    /\ desc = <<>>
    /\ merchant = <<>>
    /\ cpc = "idle"

Init ==
    /\ args \in [exists : BOOLEAN, parses : BOOLEAN, csv_prefix : CsvPrefixes]
    /\ args.parses => args.exists
    /\ file_rows \in IF args.parses THEN InputFiles ELSE {<<>>}
    /\ NotStarted

Spec == Init /\ [][Next]_vars

----------------------------------------------------------------------------
(* Runs on files with many merchants in one month.                         *)

\* A file of this family has at most MaxWide rows, each of a merchant of its
\* own, all Posted and of one month.
MaxWide == 12

\* At most MaxOdd rows of a file have an amount out of the series.
MaxOdd == 1

Letters ==
    << "A", "B", "C", "D", "E", "F", "G", "H", "I", "J", "K", "L", "M",
       "N", "O", "P", "Q", "R", "S", "T", "U", "V", "W", "X", "Y", "Z" >>

WideDescription(i) == <<"S", "H", "O", "P", " ">> \o <<Letters[i]>>

\* The amount of row i in the series: i cents spent.
SeriesAmount(i) == -10 * i

\* The amounts out of the series: five cents, which ties with row 5, and
\* four mills, which rounds to a total of 0.00.
OddAmounts == {-50, -4}

WideRow(i, amount) ==
    [ Date |-> MonthSeq[1], Description |-> WideDescription(i),
      Amount |-> amount, Status |-> "Posted" ]

WideFilesOfLength(n) ==
    UNION { { [i \in 1..n |->
                 WideRow(i, IF i \in odd THEN amounts[i] ELSE SeriesAmount(i))]
              : amounts \in [odd -> OddAmounts] }
            : odd \in {rows \in SUBSET (1..n) : Cardinality(rows) <= MaxOdd} }

WideFiles == UNION {WideFilesOfLength(n) : n \in 0..MaxWide}

InitWide ==
    /\ args = [exists |-> TRUE, parses |-> TRUE,
               csv_prefix |-> [given |-> TRUE, value |-> "out_"]]
    /\ file_rows \in WideFiles
    /\ NotStarted

SpecWide == InitWide /\ [][Next]_vars

----------------------------------------------------------------------------
(* The specification of clean_merchant_name as a pure function.            *)

\* main is not running.
IdleMain ==
    /\ args = [exists |-> FALSE, parses |-> FALSE, csv_prefix |-> "None"]
    /\ file_rows = <<>>
    /\ pc = "idle"
    /\ calls = <<>>
    /\ df = <<>>
    /\ df_posted = <<>>
    /\ monthly_stats = <<>>
    /\ spending_report = <<>>
    /\ stdout = <<>>
    /\ files = <<>>
    /\ exit_code = <<>>
    /\ error = "None"

InitClean ==
    /\ desc \in Descriptions
    /\ merchant = <<>>
    /\ cpc = "call"
    /\ IdleMain

ApplyCleanMerchantName ==
    /\ cpc = "call"
    /\ merchant' = clean_merchant_name(desc)
    /\ cpc' = "returned"
    /\ UNCHANGED <<desc, pvars>>

NextClean == ApplyCleanMerchantName

SpecClean == InitClean /\ [][NextClean]_vars

----------------------------------------------------------------------------
(* What the claims about a run read off the state.                         *)

\* main has called `step`.
Called(step) == \E i \in 1..Len(calls) : calls[i] = step

\* A piece of output with this tag has been printed.
Printed(tag) == \E i \in 1..Len(stdout) : stdout[i].tag = tag

\* The content of the piece of output with this tag.
Body(tag) == stdout[CHOOSE i \in 1..Len(stdout) : stdout[i].tag = tag].body

\* The sum of Amount over the rows of the input file with these numbers.
RECURSIVE SumOfFileRows(_)
SumOfFileRows(numbers) ==
    IF numbers = {} THEN 0
    ELSE LET i == CHOOSE k \in numbers : TRUE
         IN  file_rows[i].Amount + SumOfFileRows(numbers \ {i})

\* The numbers of the Posted rows of the input file dated in `month`.
PostedRowsOf(month) ==
    { i \in 1..Len(file_rows) :
        file_rows[i].Status = "Posted" /\ MonthName(file_rows[i].Date) = month }

----------------------------------------------------------------------------
(* Claims about a run of main (checked under Spec).                        *)

\* C1: the monthly totals and the spending report are those of the Posted
\* rows alone: they are what the input file gives with every row that is
\* not Posted removed, each month's deposits, spending, net and count are
\* the sums and the count of its Posted rows, and a month without a Posted
\* row is in neither report.
C1_OnlyPostedRowsCount ==
    LET without == SelectSeq(file_rows, LAMBDA r : r.Status = "Posted")
        reference == clean_data(without).df_posted
    IN  /\ Called("calculate_monthly_totals") =>
              /\ monthly_stats = calculate_monthly_totals(reference)
              /\ \A month \in DOMAIN monthly_stats :
                    LET rows == PostedRowsOf(month)
                        plus == SumOfFileRows({i \in rows : file_rows[i].Amount > 0})
                        minus == SumOfFileRows({i \in rows : file_rows[i].Amount < 0})
                    IN  /\ rows # {}
                        /\ monthly_stats[month].deposits = plus
                        /\ monthly_stats[month].spending = -minus
                        /\ monthly_stats[month].net = plus + minus
                        /\ monthly_stats[month].transaction_count = Cardinality(rows)
        /\ Called("create_spending_report") =>
              /\ spending_report \in create_spending_report(reference)
              /\ \A month \in DOMAIN spending_report : PostedRowsOf(month) # {}

\* Both reports have been computed from a file in which a month has a Posted
\* row and a Pending row that spends.
C1_Witness ==
    /\ Called("create_spending_report")
    /\ \E i, j \in 1..Len(file_rows) :
          /\ file_rows[i].Status = "Pending"
          /\ file_rows[i].Amount < 0
          /\ file_rows[j].Status = "Posted"
          /\ file_rows[j].Date = file_rows[i].Date

\* C2: a run on a file that has rows, none of them Posted, raises no
\* division by zero and ends normally, with status 0.
C2_ZeroPostedRunCompletes ==
    ( /\ pc = "exited"
      /\ file_rows # <<>>
      /\ \A i \in 1..Len(file_rows) : file_rows[i].Status # "Posted" )
    => (error # "ZeroDivisionError" /\ exit_code = <<0>>)

C8_NoPartialFileAfterTermination ==
    pc = "killed" => \A path \in DOMAIN files : files[path].state = "complete"

\* The output of a run that stopped at its input.
InputErrorOutput ==
    { "Error: File does not exist", "Processing transactions from",
      "Reading CSV file...", "Error reading CSV file" }

\* C9: when the input file does not exist or read_csv cannot read it, no
\* step after read_csv runs, nothing but the diagnostic is printed, no export
\* file is written, and the run ends with the diagnostic and status 1.
C9_BadInputStopsTheRun ==
    ~(args.exists /\ args.parses) =>
        /\ pc \in {"start", "read_csv", "exited", "killed"}
        /\ \A i \in 1..Len(calls) : calls[i] = "read_csv"
        /\ \A i \in 1..Len(stdout) : stdout[i].tag \in InputErrorOutput
        /\ df = <<>> /\ df_posted = <<>>
        /\ monthly_stats = <<>> /\ spending_report = <<>>
        /\ files = <<>>
        /\ pc = "exited" =>
              /\ exit_code = <<1>>
              /\ stdout[Len(stdout)].tag =
                     IF args.exists THEN "Error reading CSV file"
                     ELSE "Error: File does not exist"

\* A run with a CSV prefix has ended on a file that exists and cannot be read.
C9_Witness ==
    /\ pc = "exited"
    /\ args.exists /\ ~args.parses
    /\ args.csv_prefix.given
    /\ exit_code = <<1>>

\* The aggregation steps of main.
AllAggregated ==
    /\ Called("clean_data")
    /\ Called("calculate_monthly_totals")
    /\ Called("create_spending_report")

\* C10 as stated: whenever any report output exists, all three aggregation
\* steps have completed.
C10_AggregationBeforeAnyOutput ==
    ( \/ Printed("DATA EXPLORATION")
      \/ Printed("MONTHLY TOTALS")
      \/ Printed("DETAILED SPENDING BY MERCHANT")
      \/ files # <<>> )
    => AllAggregated

\* C10 as amended: the file is read before anything is reported, and each
\* output is produced after the aggregation steps whose result it shows: the
\* monthly totals table after clean_data and calculate_monthly_totals, the
\* spending details table and the export files after all three.  (The
\* exploration statistics come before clean_data, the monthly totals table
\* before create_spending_report.)
C10_OutputAfterWhatItShows ==
    /\ Printed("DATA EXPLORATION") => Called("read_csv")
    /\ Printed("MONTHLY TOTALS") =>
          Called("clean_data") /\ Called("calculate_monthly_totals")
    /\ Printed("DETAILED SPENDING BY MERCHANT") => AllAggregated
    /\ files # <<>> => AllAggregated
    /\ (pc = "clean_data" /\ ~Called("clean_data")) => Printed("DATA EXPLORATION")
    /\ Called("create_spending_report") => Printed("MONTHLY TOTALS")

\* A run that printed every table and wrote both files, to its end.
C10_Witness ==
    /\ pc = "exited"
    /\ exit_code = <<0>>
    /\ Printed("DATA EXPLORATION")
    /\ Printed("MONTHLY TOTALS")
    /\ Printed("DETAILED SPENDING BY MERCHANT")
    /\ \A path \in { monthly_summary_path("out_"), spending_details_path("out_") } :
          path \in DOMAIN files /\ files[path].state = "complete"

----------------------------------------------------------------------------
(* Claims about the spending tables (checked under SpecWide).              *)

\* The percentages of the console table of one month: its merchant rows and
\* its '... and N others' row.
ConsolePercentages(entry) ==
    [i \in 1..Len(entry.rows) |-> entry.rows[i].percentage]
        \o [i \in 1..Len(entry.others) |-> entry.others[i].remaining_percentage]

\* The rows written to the spending details file.
ExportedDetails == files[spending_details_path(args.csv_prefix.value)].rows

\* The spending details file is completely written.
DetailsExported ==
    /\ Truthy(args.csv_prefix)
    /\ spending_details_path(args.csv_prefix.value) \in DOMAIN files
    /\ files[spending_details_path(args.csv_prefix.value)].state = "complete"

\* The percentages of the rows of one month in the spending details file.
ExportPercentages(month) ==
    LET rows == SelectSeq(ExportedDetails, LAMBDA r : r.Month = month)
    IN  [i \in 1..Len(rows) |-> rows[i].Percentage_of_Month]

RECURSIVE SumTenths(_)
SumTenths(percentages) ==
    IF percentages = <<>> THEN 0
    ELSE Head(percentages).tenths + SumTenths(Tail(percentages))

\* The percentages sum to 100.0 within 0.1.
SumsTo100(percentages) == Abs(SumTenths(percentages) - 1000) <= 1

\* The percentages are numbers and sum to 100.0 within 0.05 for each of them.
SumsTo100PerRow(percentages) ==
    /\ \A i \in 1..Len(percentages) : ~percentages[i].nan
    /\ 2 * Abs(SumTenths(percentages) - 1000) <= Len(percentages)

\* C4 as stated, for the months whose total is not 0.00 (the percentages of
\* a total of 0.00 are nan and have no sum): in the export and in the
\* console table, the percentages of the month sum to 100.0 within 0.1.
C4_PercentagesSumTo100 ==
    /\ DetailsExported =>
          \A month \in DOMAIN spending_report :
              SumTotal(spending_report[month]) # 0 =>
                  SumsTo100(ExportPercentages(YearMonth(to_datetime(month))))
    /\ Printed("DETAILED SPENDING BY MERCHANT") =>
          \A k \in 1..Len(Body("DETAILED SPENDING BY MERCHANT")) :
              Body("DETAILED SPENDING BY MERCHANT")[k].month_total # 0 =>
                  SumsTo100(ConsolePercentages(Body("DETAILED SPENDING BY MERCHANT")[k]))

\* C4 as amended: in the export and in the console table, the percentages of
\* a month whose total is not 0.00 sum to 100.0 within 0.05 per rendered row
\* (so within 0.1 for up to three rows); those of a month whose total
\* is 0.00 are all nan.
C4_PercentagesSumTo100PerRow ==
    /\ DetailsExported =>
          \A month \in DOMAIN spending_report :
              LET shown == ExportPercentages(YearMonth(to_datetime(month)))
              IN  /\ Len(shown) = Len(spending_report[month])
                  /\ IF SumTotal(spending_report[month]) # 0
                     THEN SumsTo100PerRow(shown)
                     ELSE \A i \in 1..Len(shown) : shown[i].nan
    /\ Printed("DETAILED SPENDING BY MERCHANT") =>
          \A k \in 1..Len(Body("DETAILED SPENDING BY MERCHANT")) :
              LET entry == Body("DETAILED SPENDING BY MERCHANT")[k]
                  shown == ConsolePercentages(entry)
              IN  /\ Len(shown) = Len(entry.rows) + Len(entry.others)
                  /\ IF entry.month_total # 0
                     THEN SumsTo100PerRow(shown)
                     ELSE \A i \in 1..Len(shown) : shown[i].nan

\* A month of more than ten merchants has been printed, with its others row,
\* and exported, and the exported percentages sum to 100.0 plus or minus 0.2.
C4_Witness ==
    /\ DetailsExported
    /\ Printed("DETAILED SPENDING BY MERCHANT")
    /\ Len(Body("DETAILED SPENDING BY MERCHANT")) = 1
    /\ Len(Body("DETAILED SPENDING BY MERCHANT")[1].others) = 1
    /\ Len(ExportedDetails) > 10
    /\ Abs(SumTenths(ExportPercentages(ExportedDetails[1].Month)) - 1000) = 2

\* The sum of the totals of rows lo..hi of a month of the report.
RECURSIVE TotalOfRows(_, _, _)
TotalOfRows(merchants, lo, hi) ==
    IF lo > hi THEN 0 ELSE merchants[lo].total + TotalOfRows(merchants, lo + 1, hi)

\* The console table of a month shows the first min(10, n) merchants of the
\* report as they are, and for n > 10 one others row for the n - 10 left,
\* with the sum of their totals.
ShowsTopTen(entry) ==
    LET merchants == spending_report[entry.month]
        n == Len(merchants)
    IN  /\ Len(entry.rows) = IF n < 10 THEN n ELSE 10
        /\ \A i \in 1..Len(entry.rows) :
              /\ entry.rows[i].merchant = merchants[i].merchant
              /\ entry.rows[i].total = merchants[i].total
              /\ entry.rows[i].count = merchants[i].count
        /\ n <= 10 => entry.others = <<>>
        /\ n > 10 =>
              /\ Len(entry.others) = 1
              /\ entry.others[1].remaining = n - 10
              /\ entry.others[1].remaining_total = TotalOfRows(merchants, 11, n)

\* Every month of the report has its table on the console.
EveryMonthShown ==
    {Body("DETAILED SPENDING BY MERCHANT")[k].month :
        k \in 1..Len(Body("DETAILED SPENDING BY MERCHANT"))} = DOMAIN spending_report

\* C5 as stated: each month's merchants are in strictly descending order of
\* total, and the console shows the first min(10, n) and one others row.
C5_StrictlyDescendingTopTen ==
    /\ \A month \in DOMAIN spending_report :
          \A i \in 1..(Len(spending_report[month]) - 1) :
              spending_report[month][i].total > spending_report[month][i + 1].total
    /\ Printed("DETAILED SPENDING BY MERCHANT") =>
          /\ EveryMonthShown
          /\ \A k \in 1..Len(Body("DETAILED SPENDING BY MERCHANT")) :
                ShowsTopTen(Body("DETAILED SPENDING BY MERCHANT")[k])

\* C5 as amended: each month's merchants are in descending order of total,
\* merchants of equal total next to each other in either order, and the
\* console shows the first min(10, n) and one others row.
C5_DescendingTopTen ==
    /\ \A month \in DOMAIN spending_report :
          \A i \in 1..(Len(spending_report[month]) - 1) :
              spending_report[month][i].total >= spending_report[month][i + 1].total
    /\ Printed("DETAILED SPENDING BY MERCHANT") =>
          /\ EveryMonthShown
          /\ \A k \in 1..Len(Body("DETAILED SPENDING BY MERCHANT")) :
                ShowsTopTen(Body("DETAILED SPENDING BY MERCHANT")[k])

\* A month of twelve merchants, two of them of equal total, has been
\* printed: ten rows and an others row for two.
C5_Witness ==
    /\ Printed("DETAILED SPENDING BY MERCHANT")
    /\ \E month \in DOMAIN spending_report :
          /\ Len(spending_report[month]) = 12
          /\ \E i \in 1..11 :
                spending_report[month][i].total = spending_report[month][i + 1].total
    /\ Len(Body("DETAILED SPENDING BY MERCHANT")[1].rows) = 10
    /\ Body("DETAILED SPENDING BY MERCHANT")[1].others[1].remaining = 2

----------------------------------------------------------------------------
(* Claims about clean_merchant_name (checked under SpecClean).             *)

\* Which of the six pattern rules the trimmed description d satisfies.
RuleHits(d) ==
    << Contains(d, PAT_UBER_EATS),
       Contains(d, PAT_PAYPAL),
       Contains(d, PAT_CAREERBUILDER),
       Contains(d, PAT_INTEREST_PAID),
       Contains(d, PAT_GEORGIA),
       Contains(d, PAT_IRS_TREAS) /\ Contains(d, PAT_TAX_REF) >>

\* The number of the first rule d satisfies; 7 is the default rule.
FirstRule(d) ==
    LET hits == {i \in 1..6 : RuleHits(d)[i]}
    IN  IF hits = {} THEN 7 ELSE SetMin(hits)

\* The default result as the claim words it: the text before the first
\* '***', cut to at most 50 characters, trimmed.
DefaultResult(d) == Strip(Prefix(Strip(SplitFirst(d, SEP_STARS)), 50))

\* C6: clean_merchant_name returns the label of the first rule, in the order
\* UBER EATS, PAYPAL (PayPal Transfer with INST XFER), CAREERBUILDER,
\* INTEREST PAID, Georgia Departme, (IRS  TREAS and TAX REF), default, that
\* the trimmed description satisfies; a description with the one-space
\* 'IRS TREAS' and 'TAX REF' that satisfies no rule (so holds no two-space
\* 'IRS  TREAS') gets the default result and not 'Federal Tax Refund'.
C6_FirstMatchingRuleWins ==
    cpc = "returned" =>
        LET d == Strip(desc)
            first == FirstRule(d)
        IN  /\ first = 1 => merchant = LBL_UBER_EATS
            /\ first = 2 =>
                   merchant = IF Contains(d, PAT_INST_XFER)
                              THEN LBL_PAYPAL_TRANSFER ELSE LBL_PAYPAL
            /\ first = 3 => merchant = LBL_CAREERBUILDER
            /\ first = 4 => merchant = LBL_INTEREST
            /\ first = 5 => merchant = LBL_GEORGIA
            /\ first = 6 => merchant = LBL_FEDERAL
            /\ first = 7 => merchant = DefaultResult(d)
            /\ ( /\ Contains(d, FRAG_IRS_ONE_SPACE)
                 /\ Contains(d, PAT_TAX_REF)
                 /\ first = 7 )
               => merchant # LBL_FEDERAL /\ merchant = DefaultResult(d)

\* A description that satisfies the PAYPAL rule and the UBER EATS rule, PAYPAL
\* first in the text, has been given the label of the earlier rule.
C6_Witness ==
    /\ cpc = "returned"
    /\ Contains(desc, PAT_PAYPAL)
    /\ Contains(desc, PAT_UBER_EATS)
    /\ SetMin(Occurrences(desc, PAT_PAYPAL)) < SetMin(Occurrences(desc, PAT_UBER_EATS))
    /\ merchant = LBL_UBER_EATS

\* The description has a character that is not whitespace.
NonEmptyInput(s) == \E i \in 1..Len(s) : s[i] \notin Whitespace

\* The description has a character that is not whitespace before its first
\* '***' (anywhere, when it holds no '***').
TextBeforeStars(s) ==
    LET stars == Occurrences(s, SEP_STARS)
        last == IF stars = {} THEN Len(s) ELSE SetMin(stars) - 1
    IN  \E i \in 1..last : s[i] \notin Whitespace

\* C7 as stated: the result is empty exactly when the description is empty
\* or whitespace-only.
C7_EmptyOnlyForEmptyInput ==
    cpc = "returned" => (merchant = <<>> <=> ~NonEmptyInput(desc))

\* C7 as amended: the result is empty exactly when no pattern rule matches
\* and the description has no non-whitespace text before its first '***';
\* an empty or whitespace-only description is one such case.
C7_EmptyIffNoTextBeforeStars ==
    cpc = "returned" =>
        /\ merchant = <<>> <=> (FirstRule(Strip(desc)) = 7 /\ ~TextBeforeStars(desc))
        /\ ~NonEmptyInput(desc) => merchant = <<>>

\* A description that starts with '***' and goes on, cleaned to the empty
\* string.
C7_Witness ==
    /\ cpc = "returned"
    /\ NonEmptyInput(desc)
    /\ Len(desc) > 3
    /\ SubSeq(desc, 1, 3) = SEP_STARS
    /\ merchant = <<>>

====
